---- MODULE Spec2Model ----
(***************************************************************************)
(* A model of the anagram generator: the CharList letter multiset          *)
(* (src/src/charlist.rs), the recursive anagram search (src/src/main.rs)   *)
(* and the transposition scorer (src/src/acompare.rs).                     *)
(*                                                                         *)
(* Characters are modelled as naturals ordered as their code points are:   *)
(* 0 is the space, 1, 2, 3 are 'a', 'b', 'c'.  A String is a sequence of    *)
(* characters.  A CharCount is a record [letter, count]; a CharList is a   *)
(* record [length, list] with list a sequence of CharCounts.               *)
(***************************************************************************)
EXTENDS Integers, Sequences, FiniteSets

VARIABLES
    \* ---- CharList machine
    acc,        \* a CharList register (the first operand)
    arg,        \* a CharList register (the second operand)
    inS,        \* the input string from_string reads into acc
    inT,        \* the input string from_string reads into arg
    last,       \* the last CharList operation: its operands and its result
    \* ---- anagram search machine (main)
    goal,       \* main: the goal CharList
    keys,       \* main: words.keys(), in the map's iteration order
    level,      \* main: opt.maximum_words_in_anagram
    stack,      \* the activation records of anagram(), innermost last
    anagrams,   \* main: the value anagram() returned
    spc,        \* position of main
    \* ---- transposition scorer machine
    s1,         \* first string handed to get_transpositions
    s2,         \* second string handed to get_transpositions
    ts,         \* the Vec get_transpositions returned
    next,       \* greedy_score: the vector the loop is working on
    count,      \* greedy_score: count
    picks,      \* number of maximum_overlap calls that have returned
    gpc,        \* position of the scorer
    \* ---- covers machine
    t1,         \* a Transposition
    t2,         \* a Transposition
    cov,        \* the value of covers(t1, t2), once computed
    \* ---- driver machine (main, read_words)
    lines,      \* the lines of the word file
    minimum_length, \* opt.minimum_candidate
    goalStr,    \* opt.goal
    map,        \* read_words: the HashMap from CharList to Vec<String>
    rpos,       \* read_words: the position of the for loop in lines
    dpc,        \* position of the driver
    printed     \* the lines main has printed, each a list of word lists

vars == <<acc, arg, inS, inT, last, goal, keys, level, stack, anagrams, spc,
          s1, s2, ts, next, count, picks, gpc, t1, t2, cov,
          lines, minimum_length, goalStr, map, rpos, dpc, printed>>

clVars == <<acc, arg, inS, inT, last>>
searchVars == <<goal, keys, level, stack, anagrams, spc>>
scoreVars == <<s1, s2, ts, next, count, picks, gpc>>
coverVars == <<t1, t2, cov>>
driverVars == <<lines, minimum_length, goalStr, map, rpos, dpc, printed>>

(***************************************************************************)
(* Bounds of the model.                                                    *)
(***************************************************************************)
MaxStrLen == 3      \* longest input string of the CharList machine
MaxGoalLen == 3     \* longest goal of the search
MaxWordLen == 2     \* longest dictionary word of the search
MaxKeys == 3        \* most dictionary keys of the search
MaxLevel == 3       \* largest depth budget of the search
MaxScoreLen == 3    \* longest string handed to the scorer
MaxPos == 2         \* largest start / destination of the covers machine
MaxSpan == 2        \* largest span of the covers machine
MaxLines == 3       \* most lines of the word file
MaxMinLen == 1      \* largest minimum candidate length

Space == 0
Letters == {1, 2, 3}
SearchLetters == {1, 2}
ScoreChars == {Space, 1, 2, 3}

StringsOver(A, n) == UNION {[1..k -> A] : k \in 0..n}

(***************************************************************************)
(* charcount.rs                                                            *)
(***************************************************************************)
CharCount(l, c) == [letter |-> l, count |-> c]

\* CharCount::new
CharCount_new(l) == CharCount(l, 1)

(***************************************************************************)
(* charlist.rs : CharList                                                  *)
(***************************************************************************)
\* CharList::new
new == [length |-> 0, list |-> <<>>]

\* CharList::init
init(cc) == [length |-> cc.count, list |-> <<cc>>]

\* CharList::length
length(cl) == cl.length

\* combine with the counts of a shared letter not added: the entry of
\* first is pushed as it is.
RECURSIVE combine_keeps_first(_, _, _, _, _)
combine_keeps_first(first, second, i, j, result) ==
    IF i > Len(first.list)
    THEN IF j > Len(second.list)
         THEN [length |-> first.length + second.length, list |-> result]
         ELSE combine_keeps_first(first, second, i, j + 1,
                                  Append(result, second.list[j]))
    ELSE IF j > Len(second.list)
         THEN combine_keeps_first(first, second, i + 1, j,
                                  Append(result, first.list[i]))
         ELSE LET cc1 == first.list[i]
                  cc2 == second.list[j]
              IN  IF cc1.letter < cc2.letter
                  THEN combine_keeps_first(first, second, i + 1, j,
                                           Append(result, cc1))
                  ELSE IF cc1.letter > cc2.letter
                  THEN combine_keeps_first(first, second, i, j + 1,
                                           Append(result, cc2))
                  ELSE combine_keeps_first(first, second, i + 1, j + 1,
                                           Append(result, cc1))

\* The loop of CharList::combine: i and j are the positions of item1 and
\* item2 (past the end: None), result the vector built so far.
RECURSIVE combine_loop(_, _, _, _, _)
combine_loop(first, second, i, j, result) ==
    IF i > Len(first.list)
    THEN IF j > Len(second.list)
         THEN [length |-> first.length + second.length, list |-> result]
         ELSE combine_loop(first, second, i, j + 1,
                           Append(result, CharCount(second.list[j].letter,
                                                    second.list[j].count)))
    ELSE IF j > Len(second.list)
         THEN combine_loop(first, second, i + 1, j,
                           Append(result, CharCount(first.list[i].letter,
                                                    first.list[i].count)))
         ELSE LET cc1 == first.list[i]
                  cc2 == second.list[j]
              IN  IF cc1.letter < cc2.letter
                  THEN combine_loop(first, second, i + 1, j,
                           Append(result, CharCount(cc1.letter, cc1.count)))
                  ELSE IF cc1.letter > cc2.letter
                  THEN combine_loop(first, second, i, j + 1,
                           Append(result, CharCount(cc2.letter, cc2.count)))
                  ELSE combine_loop(first, second, i + 1, j + 1,
                           Append(result, CharCount(cc1.letter,
                                                    cc1.count + cc2.count)))

\* CharList::combine
combine(first, second) == combine_loop(first, second, 1, 1, <<>>)

\* The loop of CharList::from_string: k is the position of the next char.
RECURSIVE from_string_loop(_, _, _)
from_string_loop(s, k, a) ==
    IF k > Len(s) THEN a
    ELSE from_string_loop(s, k + 1, combine(a, init(CharCount_new(s[k]))))

\* CharList::from_string
from_string(s) == from_string_loop(s, 1, new)

\* enum MatchResult.  rem is the CharList of PartialMatch, new otherwise.
NoMatch == [tag |-> "NoMatch", rem |-> new]
FullMatch == [tag |-> "FullMatch", rem |-> new]
PartialMatch(cl) == [tag |-> "PartialMatch", rem |-> cl]

\* subtract taking a letter of small that big has advanced past for one
\* still to come: small moves on instead of NoMatch.
RECURSIVE subtract_skips_small(_, _, _, _, _)
subtract_skips_small(big, small, i, j, result) ==
    IF i > Len(big.list)
    THEN IF j > Len(small.list)
         THEN IF Len(result) = 0
              THEN [tag |-> "FullMatch", rem |-> [length |-> 0, list |-> <<>>]]
              ELSE [tag |-> "PartialMatch",
                    rem |-> [length |-> big.length - small.length,
                             list |-> result]]
         ELSE [tag |-> "NoMatch", rem |-> [length |-> 0, list |-> <<>>]]
    ELSE IF j > Len(small.list)
         THEN subtract_skips_small(big, small, i + 1, j,
                                   Append(result, big.list[i]))
         ELSE LET cc1 == big.list[i]
                  cc2 == small.list[j]
              IN  IF cc1.letter < cc2.letter
                  THEN subtract_skips_small(big, small, i + 1, j,
                                            Append(result, cc1))
                  ELSE IF cc1.letter > cc2.letter
                  THEN subtract_skips_small(big, small, i, j + 1, result)
                  ELSE IF cc1.count < cc2.count
                  THEN [tag |-> "NoMatch", rem |-> [length |-> 0, list |-> <<>>]]
                  ELSE IF cc1.count > cc2.count
                  THEN subtract_skips_small(big, small, i + 1, j + 1,
                           Append(result, [letter |-> cc1.letter,
                                           count |-> cc1.count - cc2.count]))
                  ELSE subtract_skips_small(big, small, i + 1, j + 1, result)

\* The loop of CharList::subtract.
RECURSIVE subtract_loop(_, _, _, _, _)
subtract_loop(big, small, i, j, result) ==
    IF i > Len(big.list)
    THEN IF j > Len(small.list)
         THEN IF Len(result) = 0
              THEN FullMatch
              ELSE PartialMatch([length |-> big.length - small.length,
                                 list |-> result])
         ELSE NoMatch
    ELSE IF j > Len(small.list)
         THEN subtract_loop(big, small, i + 1, j,
                            Append(result, CharCount(big.list[i].letter,
                                                     big.list[i].count)))
         ELSE LET cc1 == big.list[i]
                  cc2 == small.list[j]
              IN  IF cc1.letter < cc2.letter
                  THEN subtract_loop(big, small, i + 1, j,
                           Append(result, CharCount(cc1.letter, cc1.count)))
                  ELSE IF cc1.letter > cc2.letter
                  THEN NoMatch
                  ELSE IF cc1.count < cc2.count
                  THEN NoMatch
                  ELSE IF cc1.count > cc2.count
                  THEN subtract_loop(big, small, i + 1, j + 1,
                           Append(result, CharCount(cc1.letter,
                                                    cc1.count - cc2.count)))
                  ELSE subtract_loop(big, small, i + 1, j + 1, result)

\* CharList::subtract
subtract(big, small) == subtract_loop(big, small, 1, 1, <<>>)

\* filter with the count test off by one: equal counts are refused.
RECURSIVE filter_strict_count(_, _, _, _)
filter_strict_count(big, small, i, j) ==
    IF i > Len(big.list)
    THEN j > Len(small.list)
    ELSE IF j > Len(small.list)
         THEN filter_strict_count(big, small, i + 1, j)
         ELSE LET cc1 == big.list[i]
                  cc2 == small.list[j]
              IN  IF cc1.letter < cc2.letter
                  THEN filter_strict_count(big, small, i + 1, j)
                  ELSE IF cc1.letter > cc2.letter
                  THEN FALSE
                  ELSE IF cc1.count <= cc2.count
                  THEN FALSE
                  ELSE filter_strict_count(big, small, i + 1, j + 1)

\* The loop of CharList::filter.
RECURSIVE filter_loop(_, _, _, _)
filter_loop(big, small, i, j) ==
    IF i > Len(big.list)
    THEN j > Len(small.list)
    ELSE IF j > Len(small.list)
         THEN filter_loop(big, small, i + 1, j)
         ELSE LET cc1 == big.list[i]
                  cc2 == small.list[j]
              IN  IF cc1.letter < cc2.letter
                  THEN filter_loop(big, small, i + 1, j)
                  ELSE IF cc1.letter > cc2.letter
                  THEN FALSE
                  ELSE IF cc1.count < cc2.count
                  THEN FALSE
                  ELSE filter_loop(big, small, i + 1, j + 1)

\* CharList::filter
filter(big, small) == filter_loop(big, small, 1, 1)

(***************************************************************************)
(* The CharList machine: two registers, loaded by from_string from the two *)
(* input strings and worked on by combine, subtract and filter in any      *)
(* order.  last records the operation that ran last.                       *)
(***************************************************************************)
NoOp == [op |-> "none", x |-> new, y |-> new, n |-> 0, cl |-> new,
         m |-> "-", ok |-> FALSE]

CLStrings == StringsOver(Letters, MaxStrLen)

InitCL ==
    /\ inS \in CLStrings
    /\ inT \in CLStrings
    /\ acc = new
    /\ arg = new
    /\ last = NoOp

IdleCL ==
    /\ inS = <<>>
    /\ inT = <<>>
    /\ acc = new
    /\ arg = new
    /\ last = NoOp

\* acc = CharList::from_string(inS)
ReadS ==
    /\ acc' = from_string(inS)
    /\ last' = [NoOp EXCEPT !.op = "from_string", !.n = Len(inS),
                            !.cl = from_string(inS)]
    /\ UNCHANGED <<arg, inS, inT>>
    /\ UNCHANGED <<searchVars, scoreVars, coverVars, driverVars>>

\* arg = CharList::from_string(inT)
ReadT ==
    /\ arg' = from_string(inT)
    /\ last' = [NoOp EXCEPT !.op = "from_string", !.n = Len(inT),
                            !.cl = from_string(inT)]
    /\ UNCHANGED <<acc, inS, inT>>
    /\ UNCHANGED <<searchVars, scoreVars, coverVars, driverVars>>

\* acc = CharList::combine(acc, arg)
Combine ==
    /\ length(acc) + length(arg) <= 2 * MaxStrLen
    /\ acc' = combine(acc, arg)
    /\ last' = [NoOp EXCEPT !.op = "combine", !.x = acc, !.y = arg,
                            !.cl = combine(acc, arg)]
    /\ UNCHANGED <<arg, inS, inT>>
    /\ UNCHANGED <<searchVars, scoreVars, coverVars, driverVars>>

\* match CharList::subtract(&acc, &arg) { PartialMatch(r) => acc = r, .. }
Subtract ==
    LET m == subtract(acc, arg)
    IN  /\ acc' = IF m.tag = "PartialMatch" THEN m.rem ELSE acc
        /\ last' = [NoOp EXCEPT !.op = "subtract", !.x = acc, !.y = arg,
                                !.cl = m.rem, !.m = m.tag]
        /\ UNCHANGED <<arg, inS, inT>>
        /\ UNCHANGED <<searchVars, scoreVars, coverVars, driverVars>>

\* CharList::filter(&acc, &arg)
Filter ==
    /\ last' = [NoOp EXCEPT !.op = "filter", !.x = acc, !.y = arg,
                            !.ok = filter(acc, arg)]
    /\ UNCHANGED <<acc, arg, inS, inT>>
    /\ UNCHANGED <<searchVars, scoreVars, coverVars, driverVars>>

(***************************************************************************)
(* Properties of the CharList machine                                      *)
(***************************************************************************)
\* The number of times letter l occurs in the multiset cl stands for.
RECURSIVE CountIn(_, _)
CountIn(list, l) ==
    IF Len(list) = 0 THEN 0
    ELSE (IF list[1].letter = l THEN list[1].count ELSE 0)
         + CountIn(Tail(list), l)

RECURSIVE SumCounts(_)
SumCounts(list) ==
    IF Len(list) = 0 THEN 0 ELSE list[1].count + SumCounts(Tail(list))

\* The invariants of a LetterMultiset: letters strictly ascending, every
\* count positive, the cached length the sum of the counts.
WellFormed(cl) ==
    /\ \A k \in 1..(Len(cl.list) - 1) : cl.list[k].letter < cl.list[k + 1].letter
    /\ \A k \in 1..Len(cl.list) : cl.list[k].count >= 1
    /\ cl.length = SumCounts(cl.list)

SubMultiset(small, big) ==
    \A l \in Letters : CountIn(small.list, l) <= CountIn(big.list, l)

\* The well-formed CharList of the letter-wise difference big - small.
RECURSIVE DifferenceList(_, _, _)
DifferenceList(big, small, l) ==
    IF l \notin Letters THEN <<>>
    ELSE LET d == CountIn(big.list, l) - CountIn(small.list, l)
         IN  (IF d > 0 THEN <<CharCount(l, d)>> ELSE <<>>)
             \o DifferenceList(big, small, l + 1)

Difference(big, small) ==
    LET list == DifferenceList(big, small, 1)
    IN  [length |-> SumCounts(list), list |-> list]

\* C4: subtract(big, small) is NoMatch exactly when small is not a
\* sub-multiset of big, FullMatch exactly when big equals small, and
\* PartialMatch(r) exactly when big strictly contains small, r being the
\* letter-wise difference big - small.
C4_SubtractThreeWay ==
    last.op = "subtract" =>
        /\ (last.m = "NoMatch") <=> ~SubMultiset(last.y, last.x)
        /\ (last.m = "FullMatch") <=> (last.x = last.y)
        /\ (last.m = "PartialMatch") <=>
               (SubMultiset(last.y, last.x) /\ last.x # last.y)
        /\ last.m = "PartialMatch" => last.cl = Difference(last.x, last.y)

\* A subtract that left a remainder of two letters, one of them with a
\* reduced count.
C4_Witness ==
    /\ last.op = "subtract"
    /\ last.m = "PartialMatch"
    /\ Len(last.y.list) >= 1
    /\ Len(last.cl.list) = 2
    /\ \E k \in 1..Len(last.x.list) :
           /\ last.x.list[k].letter = last.cl.list[1].letter
           /\ last.x.list[k].count > last.cl.list[1].count

\* C5: filter(big, small) is true exactly when subtract(big, small) is not
\* NoMatch.
C5_FilterIffNotNoMatch ==
    last.op = "filter" =>
        (last.ok <=> subtract(last.x, last.y).tag # "NoMatch")

\* filter accepted a small that uses up one letter of big and leaves others.
C5_Witness ==
    /\ last.op = "filter"
    /\ last.ok
    /\ Len(last.y.list) >= 1
    /\ Len(last.x.list) > Len(last.y.list)
    /\ \E k \in 1..Len(last.x.list) : last.x.list[k] = last.y.list[1]

\* C6: every CharList that from_string, combine and the remainder of a
\* subtract produce is well-formed, and from_string(s) has the length of s.
C6_WellFormed ==
    /\ WellFormed(acc)
    /\ WellFormed(arg)
    /\ WellFormed(last.cl)
    /\ last.op = "from_string" => last.cl.length = last.n

\* A combine of two operands that share a letter, the first of them the
\* remainder of an earlier subtract or combine.
C6_Witness ==
    /\ last.op = "combine"
    /\ last.x # from_string(inS)
    /\ Len(last.cl.list) >= 2
    /\ \E k \in 1..Len(last.x.list) : \E n \in 1..Len(last.y.list) :
           last.x.list[k].letter = last.y.list[n].letter


(***************************************************************************)
(* main.rs : the anagram search                                            *)
(***************************************************************************)
\* v.sort_by(|c1, c2| c2.length.cmp(&c1.length)): a stable sort, longest
\* first.  Insert c behind every element that is at least as long.
RECURSIVE sort_insert(_, _)
sort_insert(v, c) ==
    IF Len(v) = 0 THEN <<c>>
    ELSE IF v[Len(v)].length >= c.length THEN Append(v, c)
    ELSE Append(sort_insert(SubSeq(v, 1, Len(v) - 1), c), v[Len(v)])

RECURSIVE sort_by_length(_)
sort_by_length(v) ==
    IF Len(v) = 0 THEN <<>>
    ELSE sort_insert(sort_by_length(SubSeq(v, 1, Len(v) - 1)), v[Len(v)])

\* The loop of filter_candidates: k is the position of c.
RECURSIVE filter_candidates_loop(_, _, _, _)
filter_candidates_loop(g, candidates, k, v) ==
    IF k > Len(candidates) THEN v
    ELSE LET c == candidates[k]
         IN  IF c.length <= g.length /\ filter(g, c)
             THEN filter_candidates_loop(g, candidates, k + 1, Append(v, c))
             ELSE filter_candidates_loop(g, candidates, k + 1, v)

\* filter_candidates
filter_candidates(g, candidates) ==
    sort_by_length(filter_candidates_loop(g, candidates, 1, <<>>))

\* An activation record of anagram(): its parameters, the position of the
\* for loop (index, from 1) and results.
Frame(g, words, iteration_level) ==
    [goal |-> g, words |-> words, iteration_level |-> iteration_level,
     index |-> 1, results |-> <<>>]

\* Resume with the prefix left out: the returned sequences are pushed as
\* they came.
ResumeWithoutPrefix(caller, new_anagrams) ==
    [caller EXCEPT !.results = caller.results \o new_anagrams,
                   !.index = caller.index + 1]

\* The caller's part after the recursive call returns: each returned
\* sequence is prefixed with *w and pushed to results; the for loop moves on.
Resume(caller, new_anagrams) ==
    LET w == caller.words[caller.index]
    IN  [caller EXCEPT
            !.results = caller.results \o
                        [k \in 1..Len(new_anagrams) |-> <<w>> \o new_anagrams[k]],
            !.index = caller.index + 1]

\* The slice taken from the word after index.
candidates_from_next(words, index) == SubSeq(words, index + 1, Len(words))

\* The slice taken from the start of words, not from index.
candidates_from_start(words, index) == words

\* for newindex in index .. words.len() { candidates.push(words[newindex]); }
candidates_from(words, index) == SubSeq(words, index, Len(words))

\* The recursive call with the depth budget not counted down.
recursive_call_same_level(f, remains) ==
    [goal |-> remains,
     words |-> filter_candidates(f.goal, candidates_from(f.words, f.index)),
     iteration_level |-> f.iteration_level, index |-> 1, results |-> <<>>]

\* The activation the PartialMatch arm calls:
\* anagram(&remains, filter_candidates(goal, candidates), iteration_level - 1)
recursive_call(f, remains) ==
    Frame(remains,
          filter_candidates(f.goal, candidates_from(f.words, f.index)),
          f.iteration_level - 1)

\* return results: to the calling activation, or to main.
ReturnTo(results) ==
    IF Len(stack) = 1
    THEN /\ anagrams' = results
         /\ stack' = <<>>
         /\ spc' = "done"
    ELSE /\ stack' = Append(SubSeq(stack, 1, Len(stack) - 2),
                            Resume(stack[Len(stack) - 1], results))
         /\ UNCHANGED <<anagrams, spc>>

Top == stack[Len(stack)]

SetTop(f) == [stack EXCEPT ![Len(stack)] = f]

KeySet == {from_string(s) : s \in StringsOver(SearchLetters, MaxWordLen) \ {<<>>}}

GoalSet == {from_string(s) : s \in StringsOver(SearchLetters, MaxGoalLen)}

DistinctSeqs(S, n) ==
    {q \in UNION {[1..k -> S] : k \in 0..n} :
        \A i, j \in 1..Len(q) : i # j => q[i] # q[j]}

InitSearch ==
    /\ goal \in GoalSet
    /\ keys \in DistinctSeqs(KeySet, MaxKeys)
    /\ level \in 0..MaxLevel
    /\ stack = <<>>
    /\ anagrams = <<>>
    /\ spc = "start"

IdleSearch ==
    /\ goal = new
    /\ keys = <<>>
    /\ level = 0
    /\ stack = <<>>
    /\ anagrams = <<>>
    /\ spc = "idle"

\* main: candidates = filter_candidates(&goal, candidates);
\*       anagram(&goal, candidates, opt.maximum_words_in_anagram)
MainCall ==
    /\ spc = "start"
    /\ stack' = <<Frame(goal, filter_candidates(goal, keys), level)>>
    /\ spc' = "search"
    /\ UNCHANGED <<goal, keys, level, anagrams>>
    /\ UNCHANGED <<clVars, scoreVars, coverVars, driverVars>>

\* anagram: if iteration_level == 0 { return results; }
AnagramReturnEmpty ==
    /\ spc = "search"
    /\ Top.iteration_level = 0
    /\ ReturnTo(Top.results)
    /\ UNCHANGED <<goal, keys, level>>
    /\ UNCHANGED <<clVars, scoreVars, coverVars, driverVars>>

\* anagram: one turn of the for loop, MatchResult::NoMatch => ()
AnagramNoMatch ==
    /\ spc = "search"
    /\ Top.iteration_level # 0
    /\ Top.index <= Len(Top.words)
    /\ subtract(Top.goal, Top.words[Top.index]).tag = "NoMatch"
    /\ stack' = SetTop([Top EXCEPT !.index = Top.index + 1])
    /\ UNCHANGED <<goal, keys, level, anagrams, spc>>
    /\ UNCHANGED <<clVars, scoreVars, coverVars, driverVars>>

\* anagram: one turn of the for loop, MatchResult::FullMatch
AnagramFullMatch ==
    /\ spc = "search"
    /\ Top.iteration_level # 0
    /\ Top.index <= Len(Top.words)
    /\ subtract(Top.goal, Top.words[Top.index]).tag = "FullMatch"
    /\ stack' = SetTop([Top EXCEPT
                          !.results = Append(Top.results, <<Top.words[Top.index]>>),
                          !.index = Top.index + 1])
    /\ UNCHANGED <<goal, keys, level, anagrams, spc>>
    /\ UNCHANGED <<clVars, scoreVars, coverVars, driverVars>>

\* anagram: one turn of the for loop, MatchResult::PartialMatch(remains),
\* up to the recursive call
AnagramPartialMatch ==
    /\ spc = "search"
    /\ Top.iteration_level # 0
    /\ Top.index <= Len(Top.words)
    /\ LET m == subtract(Top.goal, Top.words[Top.index])
       IN  /\ m.tag = "PartialMatch"
           /\ stack' = Append(stack, recursive_call(Top, m.rem))
    /\ UNCHANGED <<goal, keys, level, anagrams, spc>>
    /\ UNCHANGED <<clVars, scoreVars, coverVars, driverVars>>

\* anagram: the for loop is over, return results
AnagramReturn ==
    /\ spc = "search"
    /\ Top.iteration_level # 0
    /\ Top.index > Len(Top.words)
    /\ ReturnTo(Top.results)
    /\ UNCHANGED <<goal, keys, level>>
    /\ UNCHANGED <<clVars, scoreVars, coverVars, driverVars>>

(***************************************************************************)
(* Properties of the anagram search                                        *)
(***************************************************************************)
\* The combine of all the elements of an anagram sequence.
RECURSIVE CombineAll(_)
CombineAll(seq) ==
    IF Len(seq) = 0 THEN new
    ELSE combine(CombineAll(SubSeq(seq, 1, Len(seq) - 1)), seq[Len(seq)])

Occurrences(seq, x) == Cardinality({k \in 1..Len(seq) : seq[k] = x})

\* seq1 and seq2 hold the same multisets with the same multiplicities.
IsPermutation(seq1, seq2) ==
    /\ Len(seq1) = Len(seq2)
    /\ \A k \in 1..Len(seq1) :
           Occurrences(seq1, seq1[k]) = Occurrences(seq2, seq1[k])

\* C1: every sequence a call of anagram has collected, and every sequence
\* the search returns to main, combines to the goal of that call.
C1_SequencesSumToGoal ==
    /\ \A d \in 1..Len(stack) : \A k \in 1..Len(stack[d].results) :
           CombineAll(stack[d].results[k]) = stack[d].goal
    /\ spc = "done" =>
           \A k \in 1..Len(anagrams) : CombineAll(anagrams[k]) = goal

\* The search returned a sequence of two different multisets.
C1_Witness ==
    /\ spc = "done"
    /\ \E k \in 1..Len(anagrams) :
           /\ Len(anagrams[k]) >= 2
           /\ anagrams[k][1] # anagrams[k][2]

\* C2: every sequence of a call of anagram has at least one element and at
\* most as many as the depth budget of that call; with a budget of 0 the
\* search returns nothing.
C2_LengthWithinDepth ==
    /\ \A d \in 1..Len(stack) : \A k \in 1..Len(stack[d].results) :
           /\ Len(stack[d].results[k]) >= 1
           /\ Len(stack[d].results[k]) <= stack[d].iteration_level
    /\ spc = "done" =>
           /\ \A k \in 1..Len(anagrams) :
                  Len(anagrams[k]) >= 1 /\ Len(anagrams[k]) <= level
           /\ level = 0 => anagrams = <<>>

\* The search returned a sequence that uses up a budget of two, for a goal
\* that three of the candidates would also reach.
C2_Witness ==
    /\ spc = "done"
    /\ level = 2
    /\ \E k \in 1..Len(anagrams) : Len(anagrams[k]) = 2
    /\ \E c \in 1..Len(keys) :
           combine(keys[c], combine(keys[c], keys[c])) = goal

\* C3: no two sequences of a result are permutations of each other.
C3_NoPermutations ==
    /\ \A d \in 1..Len(stack) : \A i, j \in 1..Len(stack[d].results) :
           i # j => ~IsPermutation(stack[d].results[i], stack[d].results[j])
    /\ spc = "done" =>
           \A i, j \in 1..Len(anagrams) :
               i # j => ~IsPermutation(anagrams[i], anagrams[j])

\* The search returned two sequences, one of them of two words that a
\* search from the start of the list would also return the other way round.
C3_Witness ==
    /\ spc = "done"
    /\ Len(anagrams) >= 2
    /\ \E k \in 1..Len(anagrams) :
           /\ Len(anagrams[k]) = 2
           /\ anagrams[k][1] # anagrams[k][2]
           /\ anagrams[k][1].length = anagrams[k][2].length


(***************************************************************************)
(* acompare.rs : the transposition scorer                                  *)
(***************************************************************************)
Transposition(start, destination, span) ==
    [start |-> start, destination |-> destination, span |-> span]

\* String::retain(|c| c != ' ')
RECURSIVE retain_not_space(_)
retain_not_space(s) ==
    IF Len(s) = 0 THEN <<>>
    ELSE IF s[1] # Space THEN <<s[1]>> \o retain_not_space(Tail(s))
    ELSE retain_not_space(Tail(s))

\* Substring::substring of the substring crate: the characters from
\* start_index (counted from 0) up to, not including, end_index; the part
\* past the end of the string is left out.
substring(s, start_index, end_index) ==
    IF end_index <= start_index THEN <<>>
    ELSE SubSeq(s, start_index + 1,
                IF end_index < Len(s) THEN end_index ELSE Len(s))

\* The three nested for loops of get_transpositions, a and b being the
\* strings without their spaces.
RECURSIVE get_transpositions_loop(_, _, _, _, _, _)
get_transpositions_loop(a, b, start, end, destination, transpositions) ==
    LET l1 == Len(a)
        span == end - start
    IN  IF start >= l1 THEN transpositions
        ELSE IF end >= l1
        THEN get_transpositions_loop(a, b, start + 1, start + 1, 0,
                                     transpositions)
        ELSE IF destination >= l1 - span
        THEN get_transpositions_loop(a, b, start, end + 1, 0, transpositions)
        ELSE IF substring(a, start, end + 1)
                = substring(b, destination, destination + span + 1)
        THEN get_transpositions_loop(a, b, start, end, destination + 1,
                 Append(transpositions,
                        Transposition(start, destination, span + 1)))
        ELSE get_transpositions_loop(a, b, start, end, destination + 1,
                                     transpositions)

\* get_transpositions with the spaces left in the two strings.
get_transpositions_keeps_spaces(a, b) ==
    get_transpositions_loop(a, b, 0, 0, 0, <<>>)

\* get_transpositions
get_transpositions(a, b) ==
    get_transpositions_loop(retain_not_space(a), retain_not_space(b),
                            0, 0, 0, <<>>)

\* covers with < for <=: ranges that only touch count as overlapping.
covers_touching(x, y) ==
    ~ ( (x.start + x.span < y.start \/ y.start + y.span < x.start)
        /\ (x.destination + x.span < y.destination
            \/ y.destination + y.span < x.destination) )

\* covers
covers(x, y) ==
    ~ ( (x.start + x.span <= y.start \/ y.start + y.span <= x.start)
        /\ (x.destination + x.span <= y.destination
            \/ y.destination + y.span <= x.destination) )

\* ts.iter().fold(0, |acc, t2| if covers(t2, t) {acc + 1} else {acc})
RECURSIVE overlap_count(_, _, _)
overlap_count(v, t, k) ==
    IF k > Len(v) THEN 0
    ELSE (IF covers(v[k], t) THEN 1 ELSE 0) + overlap_count(v, t, k + 1)

\* The for loop of maximum_overlap: the position of max_t, the first
\* element whose count is the largest.
RECURSIVE max_t_loop(_, _, _, _)
max_t_loop(v, k, max_count, max_k) ==
    IF k > Len(v) THEN max_k
    ELSE IF overlap_count(v, v[k], 1) > max_count
    THEN max_t_loop(v, k + 1, overlap_count(v, v[k], 1), k)
    ELSE max_t_loop(v, k + 1, max_count, max_k)

\* The filter without the negation: it keeps what max_t covers.
RECURSIVE filter_keeps_covered(_, _)
filter_keeps_covered(v, max_t) ==
    IF Len(v) = 0 THEN <<>>
    ELSE IF covers(max_t, v[1])
    THEN <<v[1]>> \o filter_keeps_covered(Tail(v), max_t)
    ELSE filter_keeps_covered(Tail(v), max_t)

\* ts.iter().cloned().filter(|&t| !covers(max_t, t)).collect()
RECURSIVE filter_not_covered(_, _)
filter_not_covered(v, max_t) ==
    IF Len(v) = 0 THEN <<>>
    ELSE IF ~covers(max_t, v[1])
    THEN <<v[1]>> \o filter_not_covered(Tail(v), max_t)
    ELSE filter_not_covered(Tail(v), max_t)

\* maximum_overlap, of a vector that is not empty (&ts[0] panics on an
\* empty one: see MaximumOverlapPanic)
maximum_overlap(v) ==
    filter_not_covered(v, v[max_t_loop(v, 1, -1, 1)])

\* The turn that counts before it tests for the break.
greedy_turn_counts_last(cnt, news) ==
    IF Len(news) = 0
    THEN [count |-> cnt + 1, next |-> news, break |-> TRUE]
    ELSE [count |-> cnt + 1, next |-> news, break |-> FALSE]

\* One turn of the loop of greedy_score, past the call of maximum_overlap
\* that returned news: break, or count one more and go on with news.
greedy_turn(cnt, news) ==
    IF Len(news) = 0
    THEN [count |-> cnt, next |-> news, break |-> TRUE]
    ELSE [count |-> cnt + 1, next |-> news, break |-> FALSE]

ScoreStrings == StringsOver(ScoreChars, MaxScoreLen)

InitScore ==
    /\ s1 \in ScoreStrings
    /\ s2 \in ScoreStrings
    /\ ts = <<>>
    /\ next = <<>>
    /\ count = 0
    /\ picks = 0
    /\ gpc = "start"

IdleScore ==
    /\ s1 = <<>>
    /\ s2 = <<>>
    /\ ts = <<>>
    /\ next = <<>>
    /\ count = 0
    /\ picks = 0
    /\ gpc = "idle"

\* ts = get_transpositions(s1, s2)
GetTranspositions ==
    /\ gpc = "start"
    /\ ts' = get_transpositions(s1, s2)
    /\ gpc' = "call"
    /\ UNCHANGED <<s1, s2, next, count, picks>>
    /\ UNCHANGED <<clVars, searchVars, coverVars, driverVars>>

\* greedy_score entered with count = 0.
GreedyEnterFromZero ==
    /\ gpc = "call"
    /\ count' = 0
    /\ next' = ts
    /\ gpc' = "loop"
    /\ UNCHANGED <<s1, s2, ts, picks>>
    /\ UNCHANGED <<clVars, searchVars, coverVars, driverVars>>

\* greedy_score(&ts): let mut count = 1; let mut next = v;
GreedyEnter ==
    /\ gpc = "call"
    /\ count' = 1
    /\ next' = ts
    /\ gpc' = "loop"
    /\ UNCHANGED <<s1, s2, ts, picks>>
    /\ UNCHANGED <<clVars, searchVars, coverVars, driverVars>>

\* greedy_score: maximum_overlap(next) on an empty next: &ts[0] panics
MaximumOverlapPanic ==
    /\ gpc = "loop"
    /\ Len(next) = 0
    /\ gpc' = "panic"
    /\ UNCHANGED <<s1, s2, ts, next, count, picks>>
    /\ UNCHANGED <<clVars, searchVars, coverVars, driverVars>>

\* greedy_score: one turn of the loop
GreedyTurn ==
    /\ gpc = "loop"
    /\ Len(next) # 0
    /\ LET r == greedy_turn(count, maximum_overlap(next))
       IN  /\ count' = r.count
           /\ next' = r.next
           /\ gpc' = IF r.break THEN "done" ELSE "loop"
    /\ picks' = picks + 1
    /\ UNCHANGED <<s1, s2, ts>>
    /\ UNCHANGED <<clVars, searchVars, coverVars, driverVars>>

(***************************************************************************)
(* The covers machine: covers on any two transpositions.                   *)
(***************************************************************************)
Transpositions ==
    {Transposition(a, d, n) : a \in 0..MaxPos, d \in 0..MaxPos, n \in 1..MaxSpan}

InitCovers ==
    /\ t1 \in Transpositions
    /\ t2 \in Transpositions
    /\ cov = [done |-> FALSE, value |-> FALSE]

IdleCovers ==
    /\ t1 = Transposition(0, 0, 1)
    /\ t2 = Transposition(0, 0, 1)
    /\ cov = [done |-> FALSE, value |-> FALSE]

\* covers(&t1, &t2)
Covers ==
    /\ ~cov.done
    /\ cov' = [done |-> TRUE, value |-> covers(t1, t2)]
    /\ UNCHANGED <<t1, t2>>
    /\ UNCHANGED <<clVars, searchVars, scoreVars, driverVars>>

(***************************************************************************)
(* Properties of the scorer                                                *)
(***************************************************************************)
SourceRange(t) == t.start..(t.start + t.span - 1)

DestinationRange(t) == t.destination..(t.destination + t.span - 1)

SourcesOverlap(x, y) == SourceRange(x) \cap SourceRange(y) # {}

DestinationsOverlap(x, y) == DestinationRange(x) \cap DestinationRange(y) # {}

\* C7, as claimed: covers(T1, T2) is true exactly when the source ranges
\* overlap AND the destination ranges overlap.
C7_CoversIffBothOverlap ==
    cov.done =>
        (cov.value <=> (SourcesOverlap(t1, t2) /\ DestinationsOverlap(t1, t2)))

\* C7, amended: covers(T1, T2) is true exactly when the source ranges
\* overlap OR the destination ranges overlap.
C7_CoversIffEitherOverlaps ==
    cov.done =>
        (cov.value <=> (SourcesOverlap(t1, t2) \/ DestinationsOverlap(t1, t2)))

\* covers answered true for two transpositions whose source ranges overlap
\* and whose destination ranges do not.
C7_Witness ==
    /\ cov.done
    /\ cov.value
    /\ t1 # t2
    /\ SourcesOverlap(t1, t2)
    /\ ~DestinationsOverlap(t1, t2)

\* The number of pick-and-remove iterations that empty v.
RECURSIVE PicksToEmpty(_)
PicksToEmpty(v) ==
    IF Len(v) = 0 THEN 0 ELSE 1 + PicksToEmpty(maximum_overlap(v))

\* C8, as claimed: the score greedy_score returns is the number of
\* pick-and-remove iterations that empty S, plus 1.
C8_ScoreIsPicksPlusOne ==
    gpc = "done" => count = PicksToEmpty(ts) + 1

\* C8, amended: for a set S that is not empty, the score greedy_score
\* returns is the number of pick-and-remove iterations that empty S (the
\* calls of maximum_overlap it made); a set emptied by one pick scores 1.
C8_ScoreIsPicks ==
    gpc = "done" =>
        /\ count = PicksToEmpty(ts)
        /\ count = picks

\* greedy_score returned for a set of several transpositions that its first
\* pick emptied.
C8_Witness ==
    /\ gpc = "done"
    /\ Len(ts) >= 2
    /\ picks = 1
    /\ count = 1

\* C9: on an empty set greedy_score returns 1; it does not fail.
C9_EmptySetScoresOne ==
    (Len(ts) = 0 /\ gpc \in {"done", "panic"}) => (gpc = "done" /\ count = 1)

Permutations(n) ==
    {p \in [1..n -> 1..n] : \A i, j \in 1..n : i # j => p[i] # p[j]}

\* b is a after a permutation of its positions that is not the identity.
IsPermuted(a, b) ==
    /\ Len(a) = Len(b)
    /\ \E p \in Permutations(Len(a)) :
           /\ \E k \in 1..Len(a) : p[k] # k
           /\ \A k \in 1..Len(a) : b[k] = a[p[k]]

\* C10, as claimed: the score of s against p(s) is at least 2 for every
\* permutation p of the positions of s other than the identity.
C10_PermutedScoresAtLeastTwo ==
    (gpc = "done" /\ IsPermuted(s1, s2)) => count >= 2

\* C10, amended: the score of s against p(s) is at least 2 for every
\* permutation p such that p(s) and s differ once their spaces are removed.
C10_RearrangedScoresAtLeastTwo ==
    (gpc \in {"done", "panic"} /\ IsPermuted(s1, s2)
        /\ retain_not_space(s1) # retain_not_space(s2))
    => (gpc = "done" /\ count >= 2)

\* greedy_score returned for a string of three characters, a space among
\* them, against a rearrangement of its letters.
C10_Witness ==
    /\ gpc = "done"
    /\ Len(s1) = 3
    /\ \E k \in 1..Len(s1) : s1[k] = Space
    /\ IsPermuted(s1, s2)
    /\ retain_not_space(s1) # retain_not_space(s2)
    /\ count >= 2


\* The triples (a, d, n) the claim describes: n >= 1, both runs within the
\* length of the source, and the n characters of the source from a equal to
\* the n characters of the target from d (the target has n characters from
\* d), source and target taken without their spaces.
ExpectedTranspositions(source, target) ==
    {t \in [start : 0..Len(source), destination : 0..Len(source),
            span : 1..Len(source)] :
        /\ t.start + t.span <= Len(source)
        /\ t.destination + t.span <= Len(source)
        /\ t.destination + t.span <= Len(target)
        /\ \A k \in 1..t.span :
               source[t.start + k] = target[t.destination + k]}

\* x comes before y in the order by start, then span, then destination.
TranspositionBefore(x, y) ==
    \/ x.start < y.start
    \/ x.start = y.start /\ x.span < y.span
    \/ x.start = y.start /\ x.span = y.span /\ x.destination < y.destination

\* C11: get_transpositions(source, target) returns exactly the triples
\* (a, d, n) whose runs of n characters agree in the two strings without
\* their spaces, each once, ordered by start, then span, then destination.
C11_ExactlyTheSharedRuns ==
    gpc # "start" =>
        /\ {ts[k] : k \in 1..Len(ts)}
               = ExpectedTranspositions(retain_not_space(s1),
                                        retain_not_space(s2))
        /\ \A k \in 1..(Len(ts) - 1) : TranspositionBefore(ts[k], ts[k + 1])

\* get_transpositions("abc", "bca") returned (0,2,1), (1,0,1), (1,0,2), (2,1,1).
C11_Witness ==
    /\ gpc # "start"
    /\ s1 = <<1, 2, 3>>
    /\ s2 = <<2, 3, 1>>
    /\ ts = <<Transposition(0, 2, 1), Transposition(1, 0, 1),
              Transposition(1, 0, 2), Transposition(2, 1, 1)>>

\* C16: on a PartialMatch(remainder) for candidate i, the list handed to
\* the recursive call holds only elements of candidates[i..] whose length
\* is at most the length of remainder and that are contained in
\* remainder, sorted by length descending.
C16_RecursiveListFitsRemainder ==
    \A d \in 2..Len(stack) :
        LET caller == stack[d - 1]
            remainder == stack[d].goal
            handed == stack[d].words
        IN  /\ \A k \in 1..Len(handed) :
                   /\ \E n \in caller.index..Len(caller.words) :
                          handed[k] = caller.words[n]
                   /\ length(handed[k]) <= length(remainder)
                   /\ filter(remainder, handed[k])
            /\ \A k \in 1..(Len(handed) - 1) :
                   length(handed[k]) >= length(handed[k + 1])

\* The bags of n candidates: the index sequences that do not descend.
Bags(cands, n) ==
    {q \in [1..n -> 1..Len(cands)] : \A k \in 1..(n - 1) : q[k] <= q[k + 1]}

BagOf(cands, q) == [k \in 1..Len(q) |-> cands[q[k]]]

\* C17: the search is complete: for every bag of between 1 and M of the
\* candidates filter_candidates produced whose letters combine to the
\* goal, the result holds exactly one sequence made of those candidates
\* with those multiplicities, and its elements are in non-increasing
\* order of length.
C17_SearchComplete ==
    spc = "done" =>
        LET cands == filter_candidates(goal, keys)
        IN  \A n \in 1..level : \A q \in Bags(cands, n) :
                CombineAll(BagOf(cands, q)) = goal =>
                    LET found == {k \in 1..Len(anagrams) :
                                     IsPermutation(anagrams[k], BagOf(cands, q))}
                    IN  /\ Cardinality(found) = 1
                        /\ \A k \in found : \A i \in 1..(Len(anagrams[k]) - 1) :
                               length(anagrams[k][i]) >= length(anagrams[k][i + 1])

\* The search has returned a sequence that uses one candidate twice, and
\* another sequence besides.
C17_Witness ==
    /\ spc = "done"
    /\ Len(anagrams) >= 2
    /\ \E k \in 1..Len(anagrams) :
           /\ Len(anagrams[k]) = 3
           /\ anagrams[k][1] = anagrams[k][2]
           /\ anagrams[k][2] # anagrams[k][3]

\* The transposition maximum_overlap chooses in v.
Chosen(v) == v[max_t_loop(v, 1, -1, 1)]

Elements(v) == {v[k] : k \in 1..Len(v)}

\* C18: for a set of transpositions that is not empty, each call of
\* maximum_overlap returns a strictly smaller set: the chosen
\* transposition covers itself and is removed, and nothing is added; so
\* the loop of greedy_score ends after at most |S| turns and the score it
\* returns is at most |S|.
C18_OverlapShrinksTheSet ==
    (gpc \in {"loop", "done"} /\ Len(ts) > 0) =>
        /\ picks + Len(next) <= Len(ts)
        /\ gpc = "loop" =>
               /\ Len(next) > 0
               /\ covers(Chosen(next), Chosen(next))
               /\ Chosen(next) \notin Elements(maximum_overlap(next))
               /\ Elements(maximum_overlap(next)) \subseteq Elements(next)
               /\ Len(maximum_overlap(next)) < Len(next)
        /\ gpc = "done" => (picks <= Len(ts) /\ count <= Len(ts))

\* greedy_score has returned after more than one turn, one of which
\* removed more than the chosen transposition.
C18_Witness ==
    /\ gpc = "done"
    /\ picks >= 2
    /\ picks < Len(ts)

(***************************************************************************)
(* The driver: main and read_words (main.rs).                              *)
(***************************************************************************)
EmptyMap == [k \in {} |-> <<>>]

\* read_words, the arm Ok(word) of one turn of the for loop:
\* if word.len() > minimum_length, the word goes under its key, in a new
\* vector or at the end of the one that is there.
index_word(m, word, min_len) ==
    IF Len(word) > min_len
    THEN LET key == from_string(word)
         IN  IF key \notin DOMAIN m
             THEN [k \in DOMAIN m \cup {key} |->
                       IF k = key THEN <<word>> ELSE m[k]]
             ELSE [m EXCEPT ![key] = Append(@, word)]
    ELSE m

\* The orders in which words.keys() may yield the keys of a HashMap.
KeyOrders(m) ==
    {q \in [1..Cardinality(DOMAIN m) -> DOMAIN m] :
        \A i, j \in 1..Len(q) : i # j => q[i] # q[j]}

\* main: what the print loop writes for one set, the word vector of
\* each of its CharLists.
print_set(m, set) == [k \in 1..Len(set) |-> m[set[k]]]

WordFiles ==
    UNION {[1..n -> StringsOver(SearchLetters, MaxWordLen)] : n \in 0..MaxLines}

InitDriver ==
    /\ lines \in WordFiles
    /\ minimum_length \in 0..MaxMinLen
    /\ goalStr \in StringsOver(SearchLetters, MaxGoalLen)
    /\ map = EmptyMap
    /\ rpos = 0
    /\ dpc = "open"
    /\ printed = <<>>
    /\ goal = new
    /\ keys = <<>>
    /\ level \in 0..MaxLevel
    /\ stack = <<>>
    /\ anagrams = <<>>
    /\ spc = "idle"

IdleDriver ==
    /\ lines = <<>>
    /\ minimum_length = 0
    /\ goalStr = <<>>
    /\ map = EmptyMap
    /\ rpos = 0
    /\ dpc = "idle"
    /\ printed = <<>>

\* read_words: read_lines(filename) is Ok(lines)
ReadOpen ==
    /\ dpc = "open"
    /\ rpos' = 1
    /\ dpc' = "read"
    /\ UNCHANGED <<lines, minimum_length, goalStr, map, printed>>
    /\ UNCHANGED <<clVars, searchVars, scoreVars, coverVars>>

\* read_words: read_lines(filename) is Err(_): panic!("cannot open file")
ReadOpenFails ==
    /\ dpc = "open"
    /\ dpc' = "panic"
    /\ UNCHANGED <<lines, minimum_length, goalStr, map, rpos, printed>>
    /\ UNCHANGED <<clVars, searchVars, scoreVars, coverVars>>

\* read_words: one turn of the for loop, line is Ok(word)
ReadLine ==
    /\ dpc = "read"
    /\ rpos <= Len(lines)
    /\ map' = index_word(map, lines[rpos], minimum_length)
    /\ rpos' = rpos + 1
    /\ UNCHANGED <<lines, minimum_length, goalStr, dpc, printed>>
    /\ UNCHANGED <<clVars, searchVars, scoreVars, coverVars>>

\* read_words: one turn of the for loop, line is Err(_) => return map
ReadLineFails ==
    /\ dpc = "read"
    /\ rpos <= Len(lines)
    /\ dpc' = "indexed"
    /\ UNCHANGED <<lines, minimum_length, goalStr, map, rpos, printed>>
    /\ UNCHANGED <<clVars, searchVars, scoreVars, coverVars>>

\* read_words: the for loop is over, return map
ReadReturn ==
    /\ dpc = "read"
    /\ rpos > Len(lines)
    /\ dpc' = "indexed"
    /\ UNCHANGED <<lines, minimum_length, goalStr, map, rpos, printed>>
    /\ UNCHANGED <<clVars, searchVars, scoreVars, coverVars>>

\* main: goal = CharList::from_string(&opt.goal);
\*       for key in words.keys() { candidates.push(key) }
MainCandidates ==
    /\ dpc = "indexed"
    /\ goal' = from_string(goalStr)
    /\ keys' \in KeyOrders(map)
    /\ spc' = "start"
    /\ dpc' = "search"
    /\ UNCHANGED <<level, stack, anagrams>>
    /\ UNCHANGED <<lines, minimum_length, goalStr, map, rpos, printed>>
    /\ UNCHANGED <<clVars, scoreVars, coverVars>>

\* main: one turn of for set in anagrams, up to println!("")
MainPrint ==
    /\ dpc = "search"
    /\ spc = "done"
    /\ Len(printed) < Len(anagrams)
    /\ printed' = Append(printed, print_set(map, anagrams[Len(printed) + 1]))
    /\ UNCHANGED <<lines, minimum_length, goalStr, map, rpos, dpc>>
    /\ UNCHANGED <<clVars, searchVars, scoreVars, coverVars>>

\* main: the for loop over anagrams is over
MainExit ==
    /\ dpc = "search"
    /\ spc = "done"
    /\ Len(printed) = Len(anagrams)
    /\ dpc' = "exit"
    /\ UNCHANGED <<lines, minimum_length, goalStr, map, rpos, printed>>
    /\ UNCHANGED <<clVars, searchVars, scoreVars, coverVars>>

(***************************************************************************)
(* Properties of the driver                                                *)
(***************************************************************************)
\* The word file has been read to its end.
AllLinesRead == dpc \notin {"open", "read", "panic"} /\ rpos = Len(lines) + 1

Indexed(word) ==
    \E k \in DOMAIN map : \E j \in 1..Len(map[k]) : map[k][j] = word

\* C12: once the index is built with minimum length m from a file read to
\* its end, a line is in the index if and only if its byte length is
\* greater than or equal to m; a word of length exactly m is in it.
C12_IndexedIffAtLeastMinimum ==
    AllLinesRead =>
        \A i \in 1..Len(lines) :
            Indexed(lines[i]) <=> Len(lines[i]) >= minimum_length

\* The first line of the file that holds the word.
FirstLine(word) ==
    CHOOSE i \in 1..Len(lines) :
        /\ lines[i] = word
        /\ \A j \in 1..(i - 1) : lines[j] # word

\* C13: every bucket of the index is duplicate-free and lists its words
\* in the order of their first insertion.
C13_BucketsDuplicateFree ==
    \A k \in DOMAIN map :
        \A i, j \in 1..Len(map[k]) :
            i < j => /\ map[k][i] # map[k][j]
                     /\ FirstLine(map[k][i]) < FirstLine(map[k][j])

\* greedy_score: the loop, from count and next
RECURSIVE greedy_score_loop(_, _)
greedy_score_loop(cnt, nxt) ==
    LET r == greedy_turn(cnt, maximum_overlap(nxt))
    IN  IF r.break THEN r.count ELSE greedy_score_loop(r.count, r.next)

\* greedy_score, of a vector that is not empty
greedy_score(v) == greedy_score_loop(1, v)

\* The phrase of a printed line whose word vectors hold one word each:
\* the words, one space between two of them.
RECURSIVE Phrase(_)
Phrase(line) ==
    IF Len(line) = 0 THEN <<>>
    ELSE IF Len(line) = 1 THEN line[1][1]
    ELSE line[1][1] \o <<Space>> \o Phrase(Tail(line))

OneWordEach(line) == \A k \in 1..Len(line) : Len(line[k]) = 1

\* The transposition score of a printed line against the goal.
Score(line) == greedy_score(get_transpositions(goalStr, Phrase(line)))

\* C14: the driver prints the anagrams in descending order of their
\* transposition score against the goal: of two printed lines the earlier
\* one has a score greater than or equal to the score of the later one.
C14_PrintedByDescendingScore ==
    \A i, j \in 1..Len(printed) :
        (i < j /\ OneWordEach(printed[i]) /\ OneWordEach(printed[j])
               /\ goalStr # <<>>)
            => Score(printed[i]) >= Score(printed[j])

(***************************************************************************)
(* Specifications                                                          *)
(***************************************************************************)
InitCharList == InitCL /\ IdleSearch /\ IdleScore /\ IdleCovers /\ IdleDriver

NextCharList ==
    \/ ReadS
    \/ ReadT
    \/ Combine
    \/ Subtract
    \/ Filter

SpecCharList == InitCharList /\ [][NextCharList]_vars

InitAnagram == IdleCL /\ InitSearch /\ IdleScore /\ IdleCovers /\ IdleDriver

NextAnagram ==
    \/ MainCall
    \/ AnagramReturnEmpty
    \/ AnagramNoMatch
    \/ AnagramFullMatch
    \/ AnagramPartialMatch
    \/ AnagramReturn

SpecSearch == InitAnagram /\ [][NextAnagram]_vars

InitScorer == IdleCL /\ IdleSearch /\ InitScore /\ IdleCovers /\ IdleDriver

NextScorer ==
    \/ GetTranspositions
    \/ GreedyEnter
    \/ MaximumOverlapPanic
    \/ GreedyTurn

SpecScore == InitScorer /\ [][NextScorer]_vars

InitCoversMachine == IdleCL /\ IdleSearch /\ IdleScore /\ InitCovers /\ IdleDriver

NextCovers == Covers

SpecCovers == InitCoversMachine /\ [][NextCovers]_vars

InitMain == IdleCL /\ IdleScore /\ IdleCovers /\ InitDriver

NextMain ==
    \/ ReadOpen
    \/ ReadOpenFails
    \/ ReadLine
    \/ ReadLineFails
    \/ ReadReturn
    \/ MainCandidates
    \/ MainCall
    \/ AnagramReturnEmpty
    \/ AnagramNoMatch
    \/ AnagramFullMatch
    \/ AnagramPartialMatch
    \/ AnagramReturn
    \/ MainPrint
    \/ MainExit

SpecDriver == InitMain /\ [][NextMain]_vars

(***************************************************************************)
(* Termination of the search                                               *)
(***************************************************************************)
\* Every activation of anagram on the stack has a depth budget that is
\* one smaller than the budget of its caller, the first one has the budget
\* main gave, and no budget is below 0.
BudgetsDecreaseByOne ==
    \A d \in 1..Len(stack) :
        /\ stack[d].iteration_level >= 0
        /\ stack[d].iteration_level =
               (IF d = 1 THEN level ELSE stack[d - 1].iteration_level - 1)

\* The turns of the for loop an activation has left; the one that waits
\* for a recursive call is not counted.
TurnsLeft(d) ==
    LET left == Len(stack[d].words) - stack[d].index + 1
    IN  IF d = Len(stack) THEN left ELSE left - 1

RECURSIVE Power(_, _)
Power(b, n) == IF n = 0 THEN 1 ELSE b * Power(b, n - 1)

\* A natural number that bounds the steps the search has left: every
\* activation counts 1, and each turn it has left counts for more than a
\* whole activation of the next smaller budget can.
RECURSIVE VariantUpTo(_)
VariantUpTo(d) ==
    IF d = 0 THEN 0
    ELSE VariantUpTo(d - 1)
             + 1 + TurnsLeft(d) * Power(Len(keys) + 2, stack[d].iteration_level)

Variant == VariantUpTo(Len(stack))

\* The guards of the steps of anagram: one of them holds.
HasNextStep ==
    /\ Len(stack) > 0
    /\ \/ Top.iteration_level = 0
       \/ Top.index > Len(Top.words)
       \/ /\ Top.index <= Len(Top.words)
          /\ subtract(Top.goal, Top.words[Top.index]).tag
                 \in {"NoMatch", "FullMatch", "PartialMatch"}

\* C15: the search terminates for every candidate list and depth budget:
\* every recursive call has a budget exactly one smaller than its
\* caller's and no activation goes below budget 0; while the search runs
\* it always has a next step, and every step makes a natural number
\* smaller, so the call main made returns after finitely many steps.
C15_SearchTerminates ==
    /\ [](BudgetsDecreaseByOne /\ Variant >= 0)
    /\ [](spc = "search" => HasNextStep)
    /\ [][spc = "search" => Variant' < Variant]_vars

\* The search has come back to main from a recursion that reached the
\* depth budget.
C15_Witness ==
    /\ spc = "done"
    /\ level = MaxLevel
    /\ Len(keys) = MaxKeys
    /\ Len(anagrams) >= 2

====
